---- MODULE Spec2Model ----
(***************************************************************************)
(* NeoGraph.store_in_neo (src/neograph/nx_to_neo.py): the walk over the    *)
(* nodes and then the edges of a networkx DiGraph, each turned into one    *)
(* Cypher MERGE statement and run against a neo4j store.                    *)
(*                                                                         *)
(* Strings are sequences of one-character strings, so that sanitize() and  *)
(* str() are computed character by character.  A property value is a       *)
(* record [t |-> "str", v |-> <<chars>>] or [t |-> "int", v |-> n]: the    *)
(* tag is what isinstance(value, str) and the Cypher type of a literal     *)
(* read.  A Python dict is a sequence of <<key, value>> pairs in insertion *)
(* order, keys distinct.  The text of a statement is the sequence of the   *)
(* literal pieces of its f-string and of the characters interpolated       *)
(* between them.                                                           *)
(*                                                                         *)
(* Beside store_in_neo the module holds create_constraint, and sanitize    *)
(* and __unpack_props called on their own.  Every store_in_neo call is run *)
(* a second time, in lock step, with the other value of verbose (twin).    *)
(***************************************************************************)
EXTENDS Integers, Sequences, FiniteSets, TLC

VARIABLES
    G,          \* self: the DiGraph of the running / last store_in_neo call
    pc,         \* "idle" | "nodes" | "edges" | "done": position in store_in_neo
    i,          \* loop index of __add_new_nodes / __add_new_edges (1-based)
    session,    \* number of driver sessions currently open
    opened,     \* number of sessions opened by the current call
    tx,         \* the store as seen inside the open write transaction
    store,      \* the committed store
    issued,     \* statements handed to tx.run by the current call, in order
    outcome,    \* "none" | "returned" | "raised": how the current call ended
    clock,      \* value timestamp() returns during the current call
    syncs,      \* number of store_in_neo calls started
    hist,       \* bookkeeping about the current call (never read by the code)
    pool,       \* the names, labels and properties the caller builds graphs from
    verbose,    \* the verbose argument the caller passes to store_in_neo
    printed,    \* what the current call has printed
    ret,        \* what the current call handed back ("pending" until it returns)
    twin,       \* the same calls on the same store, made with the other verbose
    cons,       \* the constraints of the store
    ccall,      \* the last create_constraint call: arguments, statement, end
    pure        \* the last call of sanitize / __unpack_props: argument, result

vars == <<G, pc, i, session, opened, tx, store, issued, outcome, clock, syncs,
          hist, pool, verbose, printed, ret, twin, cons, ccall, pure>>

-----------------------------------------------------------------------------
(* Bounds *)

\* store_in_neo calls per behaviour
MaxSyncs == 2

\* supplementary properties per graph, over all its nodes and edges
MaxExtras == 1

\* create_constraint calls per behaviour
MaxCons == 2

\* characters of a string handed to sanitize
MaxLen == 3

\* items of a dict handed to __unpack_props
MaxItems == 2

-----------------------------------------------------------------------------
(* Strings and values *)

sLabel == <<"l", "a", "b", "e", "l">>
sName == <<"n", "a", "m", "e">>
sCreated == <<"c", "r", "e", "a", "t", "e", "d">>

StrVal(s) == [t |-> "str", v |-> s]
IntVal(n) == [t |-> "int", v |-> n]

Digits == <<"0", "1", "2", "3", "4", "5", "6", "7", "8", "9">>

RECURSIVE str(_)
\* Python's str() on a non-negative int: its decimal digits.
str(n) == IF n < 10 THEN <<Digits[n + 1]>>
          ELSE str(n \div 10) \o <<Digits[(n % 10) + 1]>>

\* The backtick character (a string literal of this language cannot hold it).
Backtick == "BACKTICK"

\* The characters sanitize() deletes (nx_to_neo.py:356-359).
Forbidden == {Backtick, ";", "/", "(", ")", "{", "}"}

IsKept(c) == c \notin Forbidden

\* string.replace(c, ''): every occurrence of the character c removed.
Replaced(s, c) == SelectSeq(s, LAMBDA x : x # c)

\* The spaces removed as well.
SanitizeSpaces(s) ==
    Replaced(Replaced(Replaced(Replaced(Replaced(Replaced(Replaced(Replaced(
        s, Backtick), ";"), "/"), "("), ")"), "{"), "}"), " ")

\* Nothing removed.
SanitizeNothing(s) == s

\* sanitize() applied to one string: the chain of seven replace() calls.
sanitize(s) ==
    Replaced(Replaced(Replaced(Replaced(Replaced(Replaced(Replaced(
        s, Backtick), ";"), "/"), "("), ")"), "{"), "}")

-----------------------------------------------------------------------------
(* Python dicts *)

Keys(d) == {d[j][1] : j \in 1..Len(d)}

\* d[k]
Get(d, k) == LET j == CHOOSE j \in 1..Len(d) : d[j][1] = k IN d[j][2]

RECURSIVE Pop(_, _)
\* d.copy() followed by .pop(k): the dict without key k
Pop(d, k) == IF d = <<>> THEN <<>>
             ELSE IF Head(d)[1] = k THEN Tail(d)
             ELSE <<Head(d)>> \o Pop(Tail(d), k)

\* d.pop(k) on the dict itself: what the dict holds afterwards.
PopInPlace(d, k) == Pop(d, k)

\* x = d.copy() followed by x.pop(k): what the dict d holds afterwards.  The
\* pop is done on the copy, so d holds what it held.
CopyThenPop(d, k) == d

-----------------------------------------------------------------------------
(* Statement construction *)

\* One "key:\"value\"" entry of __unpack_props: the key sanitized; a str value
\* sanitized, any other value formatted by the f-string (str()); either way
\* the literal is written between double quotes, hence a Cypher string.
unpack_entry(key, value) ==
    [key |-> sanitize(key),
     val |-> IF value.t = "str" THEN StrVal(sanitize(value.v))
                                ELSE StrVal(str(value.v))]

\* __unpack_props: one entry per item of the dict, in the dict's order.
unpack_props(props) ==
    [j \in 1..Len(props) |-> unpack_entry(props[j][1], props[j][2])]

\* The double quote the f-strings write as \".
Quote == "\""

\* What one item of the dict adds to unpacked_props: ", key:\"value\"", the
\* key sanitized; a str value sanitized, any other value formatted by the
\* f-string.
unpacked_item(key, value) ==
    <<",", " ">> \o sanitize(key) \o <<":", Quote>>
        \o (IF value.t = "str" THEN sanitize(value.v) ELSE str(value.v))
        \o <<Quote>>

\* s[1:]
Slice1(s) == IF s = <<>> THEN <<>> ELSE Tail(s)

RECURSIVE Items(_)
\* unpacked_props once the loop over props.items() is over.
Items(props) ==
    IF props = <<>> THEN <<>>
    ELSE unpacked_item(Head(props)[1], Head(props)[2]) \o Items(Tail(props))

\* The string __unpack_props returns: unpacked_props[1:], the first comma
\* removed.
unpacked_props(props) == Slice1(Items(props))

\* The literal piece of the node statement that opens its SET += clause,
\* and the one of the edge statement.
NodeSetOpens == "\"})\nON CREATE\n    SET n.created = timestamp()\nSET n += {"
EdgeSetOpens == "]->(n2)\nON CREATE\n    SET e.created = timestamp()\nSET e += {"

\* The SET += clause left out when there is nothing to merge.
node_text_bare(node_label, node_name, other_props) ==
    <<"MERGE (n: ">> \o node_label \o <<" {name: \"">> \o node_name
        \o (IF other_props = <<>>
            THEN <<"\"})\nON CREATE\n    SET n.created = timestamp()\nRETURN n, n.created">>
            ELSE <<NodeSetOpens>> \o other_props \o <<"}\nRETURN n, n.created">>)

\* The text of the node statement: the literal pieces of the f-string as
\* they stand, the interpolated values character by character.
node_text(node_label, node_name, other_props) ==
    <<"MERGE (n: ">> \o node_label \o <<" {name: \"">> \o node_name
        \o <<NodeSetOpens>> \o other_props \o <<"}\nRETURN n, n.created">>

\* The text of the edge statement.
edge_text(from_label, from_name, to_label, to_name, edge_label, props) ==
    <<"MERGE (n:">> \o from_label \o <<" {name: \"">> \o from_name
        \o <<"\" })\nMERGE (n2:">> \o to_label \o <<" {name: \"">> \o to_name
        \o <<"\" })\nMERGE (n)-[e:">> \o edge_label
        \o <<EdgeSetOpens>> \o props \o <<"}\nRETURN e">>

\* The statement __add_new_nodes builds for the node at position k of
\* list(self.nodes).
node_query(g, k) ==
    LET node_name == g.nodes[k]
        data == g.data[node_name]
        node_label == Get(data, sLabel).v
        other_props == unpack_props(Pop(data, sLabel))
        frag == unpacked_props(Pop(data, sLabel))
    IN  [kind |-> "node",
         label |-> sanitize(node_label),
         name |-> sanitize(node_name),
         props |-> other_props,
         frag |-> frag,
         text |-> node_text(sanitize(node_label), sanitize(node_name), frag)]

\* The statement __add_new_edges builds for the edge at position k of
\* self.edges.
edge_query(g, k) ==
    LET edge == g.edges[k]
        attrs == g.attrs[edge]
        from_node_label == Get(g.data[edge[1]], sLabel).v
        to_node_label == Get(g.data[edge[2]], sLabel).v
        edge_label == Get(attrs, sLabel).v
        props == unpack_props(Pop(attrs, sLabel))
        frag == unpacked_props(Pop(attrs, sLabel))
    IN  [kind |-> "edge",
         from_label |-> sanitize(from_node_label),
         from_name |-> sanitize(edge[1]),
         to_label |-> sanitize(to_node_label),
         to_name |-> sanitize(edge[2]),
         label |-> sanitize(edge_label),
         props |-> props,
         frag |-> frag,
         text |-> edge_text(sanitize(from_node_label), sanitize(edge[1]),
                            sanitize(to_node_label), sanitize(edge[2]),
                            sanitize(edge_label), frag)]

-----------------------------------------------------------------------------
(* The store: what the Cypher of the two statements does *)

EmptyStore == [nodes |-> {}, rels |-> {}, nextId |-> 1]

RECURSIVE MapPlus(_, _)
\* map += {entries}: every entry's key set to its value, left to right; the
\* other keys of the map untouched.
MapPlus(map, entries) ==
    IF entries = <<>> THEN map
    ELSE LET e == Head(entries)
             m == [k \in DOMAIN map \cup {e.key} |->
                      IF k = e.key THEN e.val ELSE map[k]]
         IN  MapPlus(m, Tail(entries))

\* The nodes MERGE (n:label {name: "name"}) matches.
MatchNodes(st, label, name) ==
    {n.id : n \in {m \in st.nodes :
                      /\ m.label = label
                      /\ sName \in DOMAIN m.props
                      /\ m.props[sName] = StrVal(name)}}

\* MERGE (n:label {name: "name"}): the matched nodes, or a new one when
\* nothing matches.
MergeNode(st, label, name) ==
    LET found == MatchNodes(st, label, name)
        new == [id |-> st.nextId, label |-> label,
                props |-> [k \in {sName} |-> StrVal(name)]]
    IN  IF found # {}
        THEN [st |-> st, ids |-> found, created |-> FALSE]
        ELSE [st |-> [st EXCEPT !.nodes = @ \cup {new}, !.nextId = @ + 1],
              ids |-> {st.nextId}, created |-> TRUE]

\* SET x.created = timestamp() / SET x += {...} on the entities `ids` of
\* the set `ents`.
SetOn(ents, ids, entries) ==
    {IF e.id \in ids THEN [e EXCEPT !.props = MapPlus(@, entries)] ELSE e :
        e \in ents}

Stamp(now) == <<[key |-> sCreated, val |-> IntVal(now)]>>

\* A label or relationship type that is empty after sanitize() leaves
\* "(n: {name: ...})" or "[e:]", which Cypher rejects.
WellFormed(q) ==
    IF q.kind = "node" THEN q.label # <<>>
    ELSE q.from_label # <<>> /\ q.to_label # <<>> /\ q.label # <<>>

\* MERGE (n: L {name: "N"}) ON CREATE SET n.created = timestamp()
\* SET n += {props}
RunNode(st, q, now) ==
    LET m == MergeNode(st, q.label, q.name)
        stamped == IF m.created THEN SetOn(m.st.nodes, m.ids, Stamp(now))
                                ELSE m.st.nodes
    IN  [m.st EXCEPT !.nodes = SetOn(stamped, m.ids, q.props)]

\* No relationship is ever matched.
MatchNoRels(st, src, dst, type) == {}

\* The relationships (n)-[e:type]->(n2) matches for the bound n and n2.
MatchRels(st, src, dst, type) ==
    {r.id : r \in {x \in st.rels :
                      x.src = src /\ x.dst = dst /\ x.type = type}}

RECURSIVE MergeRels(_, _, _, _)
\* MERGE (n)-[e:type]->(n2) ON CREATE SET e.created = timestamp(), row by
\* row over the (n, n2) pairs bound by the two node MERGEs.
MergeRels(st, rows, type, now) ==
    IF rows = {} THEN [st |-> st, ids |-> {}]
    ELSE LET row == CHOOSE r \in rows : TRUE
             found == MatchRels(st, row[1], row[2], type)
             new == [id |-> st.nextId, src |-> row[1], dst |-> row[2],
                     type |-> type,
                     props |-> [k \in {sCreated} |-> IntVal(now)]]
             st1 == IF found # {} THEN st
                    ELSE [st EXCEPT !.rels = @ \cup {new}, !.nextId = @ + 1]
             mine == IF found # {} THEN found ELSE {st.nextId}
             rest == MergeRels(st1, rows \ {row}, type, now)
         IN  [st |-> rest.st, ids |-> mine \cup rest.ids]

\* MERGE (n:..) MERGE (n2:..) MERGE (n)-[e:..]->(n2) ON CREATE SET
\* e.created = timestamp() SET e += {props}
RunEdge(st, q, now) ==
    LET m1 == MergeNode(st, q.from_label, q.from_name)
        m2 == MergeNode(m1.st, q.to_label, q.to_name)
        r == MergeRels(m2.st, m1.ids \X m2.ids, q.label, now)
    IN  [r.st EXCEPT !.rels = SetOn(@, r.ids, q.props)]

\* tx.run(query) on a statement the store accepts.
Run(st, q, now) ==
    IF q.kind = "node" THEN RunNode(st, q, now) ELSE RunEdge(st, q, now)

-----------------------------------------------------------------------------
(* The graphs the caller hands to store_in_neo *)

RECURSIVE SubSeqs(_)
\* Every subsequence of s (the elements kept stay in s's order).
SubSeqs(s) ==
    IF s = <<>> THEN {<<>>}
    ELSE LET rest == SubSeqs(Tail(s))
         IN  rest \cup {<<Head(s)>> \o r : r \in rest}

Range(s) == {s[j] : j \in 1..Len(s)}

\* {'label': label} followed by at most one supplementary property.
Dicts(labels, extras) ==
    {<<<<sLabel, StrVal(l)>>>> : l \in labels}
        \cup {<<<<sLabel, StrVal(l)>>, e>> : l \in labels, e \in extras}

RECURSIVE Sum(_, _)
Sum(f, S) == IF S = {} THEN 0
             ELSE LET x == CHOOSE y \in S : TRUE IN f[x] + Sum(f, S \ {x})

\* Supplementary properties of g: the items besides 'label'.
Extras(g) ==
    Sum([n \in Range(g.nodes) |-> Len(g.data[n]) - 1], Range(g.nodes))
        + Sum([e \in Range(g.edges) |-> Len(g.attrs[e]) - 1], Range(g.edges))

\* A DiGraph as store_in_neo reads it: list(self.nodes), self.nodes[n]['data'],
\* self.edges and self.edges[e]; every edge joins two nodes of the graph.
Graphs(p) ==
    {g \in UNION {UNION {
            [nodes : {ns}, data : [Range(ns) -> Dicts(p.labels, p.nprops)],
             edges : {es}, attrs : [Range(es) -> Dicts(p.types, p.eprops)]] :
            es \in SubSeqs(SelectSeq(p.pairs,
                       LAMBDA e : e[1] \in Range(ns) /\ e[2] \in Range(ns)))} :
            ns \in SubSeqs(p.names) \ {<<>>}} :
        Extras(g) <= MaxExtras}

NoGraph == [nodes |-> <<>>, data |-> <<>>, edges |-> <<>>, attrs |-> <<>>]

p1 == <<"P">>
q1 == <<"Q">>
r1 == <<"R">>
a1 == <<"a">>
b1 == <<"b">>
k1 == <<"k">>
j1 == <<"j">>

\* Each behaviour draws its graphs from one pool.
Pools ==
    {  \* shapes: two nodes, two labels, both directions of an edge
       [use |-> "graphs",
        names |-> <<a1, b1>>, labels |-> {p1, q1}, nprops |-> {},
        pairs |-> <<<<a1, b1>>, <<b1, a1>>>>, types |-> {r1}, eprops |-> {}],
       \* supplementary properties on a node and on a self-loop
       [use |-> "graphs",
        names |-> <<a1>>, labels |-> {p1},
        nprops |-> {<<k1, StrVal(<<"v">>)>>, <<k1, StrVal(<<"w", ";">>)>>,
                    <<j1, IntVal(12)>>},
        pairs |-> <<<<a1, a1>>>>, types |-> {r1},
        eprops |-> {<<k1, StrVal(<<"v">>)>>, <<j1, IntVal(12)>>}],
       \* supplementary properties under the keys the statements write
       [use |-> "graphs",
        names |-> <<a1, b1>>, labels |-> {p1},
        nprops |-> {<<sName, StrVal(b1)>>, <<sCreated, StrVal(<<"v">>)>>},
        pairs |-> <<<<a1, b1>>>>, types |-> {r1},
        eprops |-> {<<sCreated, StrVal(<<"v">>)>>}],
       \* names and labels holding characters sanitize() deletes
       [use |-> "graphs",
        names |-> <<a1, <<"a", ";">>>>, labels |-> {p1, <<";">>},
        nprops |-> {}, pairs |-> <<<<a1, <<"a", ";">>>>>>,
        types |-> {r1, <<"R", "/">>}, eprops |-> {}],
       \* no graph: constraints are created
       [use |-> "constraints",
        names |-> <<>>, labels |-> {p1, <<"P", ";">>}, nprops |-> {},
        pairs |-> <<>>, types |-> {}, eprops |-> {}],
       \* no graph: sanitize and __unpack_props are called on their own
       [use |-> "functions",
        names |-> <<>>, labels |-> {}, nprops |-> {},
        pairs |-> <<>>, types |-> {}, eprops |-> {}] }

-----------------------------------------------------------------------------
(* store_in_neo *)

\* The transactions in the other order.
PhasesSwapped == <<"edges", "nodes">>

\* The two write transactions of store_in_neo, in the order it runs them.
Phases == <<"nodes", "edges">>

\* The session left open.
SessionLeak(n) == n

\* Leaving "with self.driver.session() as session": the session is closed.
SessionExit(n) == n - 1

\* The work done before the exception kept.
RollbackKeeps(committed, working) == working

\* session.write_transaction(f): an exception raised inside f rolls the
\* transaction back, so the store keeps its committed state.
Rollback(committed, working) == committed

\* The exception swallowed: the loop goes on.
AfterErrorGoOn(ph) == ph

\* Where store_in_neo stands after tx.run raised in phase ph: nothing
\* catches the exception, so the call is over.
AfterError(ph) == "done"

\* What a Python function hands back when it ends without a return
\* statement.
None == "None"

\* A report of the entities handed back.
ReturnsReport == "report"

\* store_in_neo ends on the second write_transaction call: it has no return
\* statement.
ReturnValue == None

\* The part of the state one store_in_neo call reads and writes.
Cur ==
    [pc |-> pc, i |-> i, session |-> session, opened |-> opened, tx |-> tx,
     store |-> store, issued |-> issued, outcome |-> outcome,
     printed |-> printed, ret |-> ret]

Become(c) ==
    /\ pc' = c.pc
    /\ i' = c.i
    /\ session' = c.session
    /\ opened' = c.opened
    /\ tx' = c.tx
    /\ store' = c.store
    /\ issued' = c.issued
    /\ outcome' = c.outcome
    /\ printed' = c.printed
    /\ ret' = c.ret

Idle ==
    [pc |-> "idle", i |-> 0, session |-> 0, opened |-> 0, tx |-> EmptyStore,
     store |-> EmptyStore, issued |-> <<>>, outcome |-> "none",
     printed |-> <<>>, ret |-> "pending"]

\* The call enters "with self.driver.session() as session" and its first
\* write transaction.
Begin(c) ==
    [c EXCEPT !.pc = Phases[1], !.i = 1, !.session = @ + 1, !.opened = 1,
              !.tx = c.store, !.issued = <<>>, !.outcome = "none",
              !.printed = <<>>, !.ret = "pending"]

\* store_in_neo is called on graph g, verbose or not: the session is opened
\* and the first write transaction begins.
store_in_neo(g, flag) ==
    /\ pc \in {"idle", "done"}
    /\ syncs < MaxSyncs
    /\ G' = g
    /\ verbose' = flag
    /\ Become(Begin(Cur))
    /\ twin' = Begin(twin)
    /\ clock' = clock + 1
    /\ syncs' = syncs + 1
    /\ hist' = [start |-> store, mid |-> store, work |-> store, failedAt |-> 0,
                resync |-> (pc = "done" /\ outcome = "returned" /\ g = G),
                given |-> g]
    /\ UNCHANGED <<pool, cons, ccall, pure>>

Statements(ph) == IF ph = "nodes" THEN Len(G.nodes) ELSE Len(G.edges)

Query(ph, k) == IF ph = "nodes" THEN node_query(G, k) ELSE edge_query(G, k)

\* One turn of the loop of __add_new_nodes / __add_new_edges, its prints
\* left out: the statement is built and handed to tx.run, which answers (ok)
\* or raises.
Step(c, ph, ok) ==
    IF c.pc # ph \/ c.i > Statements(ph) THEN c
    ELSE LET q == Query(ph, c.i)
             sent == [c EXCEPT !.issued = Append(@, q)]
         IN  IF ok /\ WellFormed(q)
             THEN [sent EXCEPT !.tx = Run(c.tx, q, clock), !.i = @ + 1]
             ELSE IF AfterError(ph) = "done"
             THEN [sent EXCEPT !.tx = Rollback(c.store, c.tx),
                               !.store = Rollback(c.store, c.tx),
                               !.session = SessionExit(@),
                               !.outcome = "raised",
                               !.pc = "done"]
             ELSE [sent EXCEPT !.i = @ + 1, !.pc = AfterError(ph)]

\* What a verbose turn prints: before tx.run "Storing the following node"
\* with the name, label and properties (nodes only); after tx.run, which
\* answered, the rows of the result (a MERGE ... RETURN always binds a row).
Lines(c, ph, answered) ==
    LET q == Query(ph, c.i)
        before == IF ph = "nodes"
                  THEN <<[line |-> "Storing the following node...",
                          about |-> q]>>
                  ELSE <<>>
        after == IF ~answered THEN <<>>
                 ELSE IF ph = "nodes"
                 THEN <<[line |-> "Add node query result:", about |-> q]>>
                 ELSE <<[line |-> "Add relationship query result:", about |-> q]>>
    IN  before \o after

\* The statement handed to tx.run inside the "if verbose:" block.
TurnIfVerbose(c, ph, flag, ok) ==
    IF c.pc # ph \/ c.i > Statements(ph) THEN c
    ELSE IF flag
    THEN LET n == Step(c, ph, ok)
         IN  [n EXCEPT !.printed = @ \o Lines(c, ph, n.i > c.i)]
    ELSE [c EXCEPT !.i = @ + 1]

\* One turn of the loop of __add_new_nodes / __add_new_edges: the "if
\* verbose:" blocks print, the statement is built and run outside them.
Turn(c, ph, flag, ok) ==
    IF c.pc # ph \/ c.i > Statements(ph) THEN c
    ELSE LET n == Step(c, ph, ok)
         IN  IF flag THEN [n EXCEPT !.printed = @ \o Lines(c, ph, n.i > c.i)]
             ELSE n

\* The graph after the turn for the k-th entity of phase ph: the only
\* method the turn calls on the graph's dicts is copy(); the pop of 'label'
\* is done on the copy.
Touched(g, ph, k) ==
    IF ph = "nodes"
    THEN [g EXCEPT !.data[g.nodes[k]] = CopyThenPop(@, sLabel)]
    ELSE [g EXCEPT !.attrs[g.edges[k]] = CopyThenPop(@, sLabel)]

RunStatement(ph, ok) ==
    /\ pc = ph
    /\ i <= Statements(ph)
    /\ G' = Touched(G, ph, i)
    /\ Become(Turn(Cur, ph, verbose, ok))
    /\ twin' = Turn(twin, ph, ~verbose, ok)
    /\ hist' = IF ok /\ WellFormed(Query(ph, i)) THEN hist
               ELSE [hist EXCEPT !.work = tx, !.failedAt = Len(issued) + 1]
    /\ UNCHANGED <<verbose, clock, syncs, pool, cons, ccall, pure>>

add_new_nodes == \E ok \in BOOLEAN : RunStatement("nodes", ok)

add_new_edges == \E ok \in BOOLEAN : RunStatement("edges", ok)

\* The transaction function of phase k returned: write_transaction commits.
\* After the first, store_in_neo begins the second; after the second, the
\* with block closes the session and store_in_neo returns.
Commit(c, k) ==
    IF c.pc # Phases[k] \/ c.i <= Statements(c.pc) THEN c
    ELSE IF k = 1
    THEN [c EXCEPT !.store = c.tx, !.pc = Phases[2], !.i = 1]
    ELSE [c EXCEPT !.store = c.tx, !.session = SessionExit(@),
                   !.outcome = "returned", !.pc = "done",
                   !.ret = ReturnValue]

\* The first transaction function returned: write_transaction commits, and
\* store_in_neo begins the second one.
commit_first ==
    /\ pc = Phases[1]
    /\ i > Statements(pc)
    /\ Become(Commit(Cur, 1))
    /\ twin' = Commit(twin, 1)
    /\ hist' = [hist EXCEPT !.mid = tx]
    /\ UNCHANGED <<G, verbose, clock, syncs, pool, cons, ccall, pure>>

\* The second transaction function returned: write_transaction commits, the
\* with block closes the session and store_in_neo returns.
commit_second ==
    /\ pc = Phases[2]
    /\ i > Statements(pc)
    /\ Become(Commit(Cur, 2))
    /\ twin' = Commit(twin, 2)
    /\ UNCHANGED <<G, verbose, clock, syncs, hist, pool, cons, ccall, pure>>

-----------------------------------------------------------------------------
(* create_constraint *)

sNode == <<"n", "o", "d", "e">>
sRelationship == <<"r", "e", "l", "a", "t", "i", "o", "n", "s", "h", "i", "p">>
sEdge == <<"e", "d", "g", "e">>

\* The values of `on` create_constraint builds a pattern for.
Targets == {sNode, sRelationship}

\* 'exists' taken for the existence constraint.
KindsExists == {"unique", "exists"}

\* The values of constraint_type create_constraint has a requirement for.
Kinds == {"unique", "exist"}

Requirement(constraint_type) ==
    IF constraint_type = "unique" THEN "IS UNIQUE" ELSE "IS NOT NULL"

\* The name __create_constraint gives the constraint: label_on_prop_unique.
constraint_name(label, on, prop) ==
    label \o <<"_">> \o on \o <<"_">> \o prop
        \o <<"_", "u", "n", "i", "q", "u", "e">>

\* The statement __create_constraint builds; label and prop come sanitized
\* from create_constraint.
constraint_query(label, prop, on, requirement) ==
    [kind |-> "constraint",
     name |-> constraint_name(label, on, prop),
     on |-> on, label |-> label, prop |-> prop,
     requirement |-> requirement,
     text |-> <<"CREATE CONSTRAINT ">> \o constraint_name(label, on, prop)
                \o <<" IF NOT EXISTS\nFOR ",
                     IF on = sNode THEN "(x:" ELSE "()-[x:">>
                \o label
                \o <<IF on = sNode THEN ")\nREQUIRE x." ELSE "]-()\nREQUIRE x.">>
                \o prop \o <<" ", requirement>>]

\* CREATE CONSTRAINT name IF NOT EXISTS FOR ... REQUIRE ...: nothing is
\* created when a constraint of that name, or of that schema and type, is
\* there.
CreateConstraint(cs, q) ==
    IF \E x \in cs :
          \/ x.name = q.name
          \/ /\ x.on = q.on /\ x.label = q.label /\ x.prop = q.prop
             /\ x.requirement = q.requirement
    THEN cs
    ELSE cs \cup {[name |-> q.name, on |-> q.on, label |-> q.label,
                   prop |-> q.prop, requirement |-> q.requirement]}

\* result.data() of a CREATE CONSTRAINT: a schema command returns no row,
\* whether it created the constraint or not.
SchemaRows(before, after) == <<>>

\* What __create_constraint prints for the rows of its result.
ConstraintReport(record) ==
    IF record # <<>> THEN "Add constraint query result:"
    ELSE "Desired constraint already exists."

NoCall ==
    [calls |-> 0, label |-> <<>>, prop |-> <<>>, on |-> <<>>, kind |-> "",
     outcome |-> "none", opened |-> 0, session |-> 0, issued |-> <<>>,
     printed |-> <<>>, before |-> {}]

\* create_constraint(label, prop, on, constraint_type): the arguments are
\* sanitized and checked, then one session runs __create_constraint in a
\* write transaction; the executor answers (ok) or raises.
create_constraint(label, prop, on, constraint_type, ok) ==
    /\ pool.use = "constraints"
    /\ pc \in {"idle", "done"}
    /\ ccall.calls < MaxCons
    /\ LET l == sanitize(label)
           p == sanitize(prop)
           call == [NoCall EXCEPT !.calls = ccall.calls + 1, !.label = label,
                                  !.prop = prop, !.on = on,
                                  !.kind = constraint_type, !.before = cons]
           q == constraint_query(l, p, on, Requirement(constraint_type))
       IN  IF on \notin Targets \/ constraint_type \notin Kinds
           THEN /\ ccall' = [call EXCEPT !.outcome = "ValueError"]
                /\ cons' = cons
           ELSE IF ~ok
           THEN /\ ccall' = [call EXCEPT !.outcome = "raised", !.opened = 1,
                                         !.session = SessionExit(1),
                                         !.issued = <<q>>]
                /\ cons' = cons
           ELSE /\ cons' = CreateConstraint(cons, q)
                /\ ccall' = [call EXCEPT
                      !.outcome = "returned", !.opened = 1,
                      !.session = SessionExit(1),
                      !.issued = <<q>>,
                      !.printed = <<ConstraintReport(
                          SchemaRows(cons, CreateConstraint(cons, q)))>>]
    /\ UNCHANGED <<G, pc, i, session, opened, tx, store, issued, outcome,
                   clock, syncs, hist, pool, verbose, printed, ret, twin, pure>>

-----------------------------------------------------------------------------
(* sanitize and __unpack_props called on their own *)

Alphabet == {"a", " ", "-"} \cup Forbidden

RECURSIVE Strings(_)
\* The strings of at most n characters.
Strings(n) ==
    IF n = 0 THEN {<<>>}
    ELSE LET shorter == Strings(n - 1)
         IN  shorter \cup {Append(s, c) : s \in shorter, c \in Alphabet}

Items1 ==
    {<<k, v>> : k \in {k1, j1, <<"k", ";">>},
                v \in {StrVal(<<"v">>), StrVal(<<"w", ";">>), StrVal(<<>>),
                       IntVal(12)}}

RECURSIVE PropDicts(_)
\* The dicts of at most n items, keys distinct.
PropDicts(n) ==
    IF n = 0 THEN {<<>>}
    ELSE LET shorter == PropDicts(n - 1)
         IN  shorter \cup UNION {
                 {Append(d, e) : e \in {x \in Items1 : x[1] \notin Keys(d)}} :
                 d \in shorter}

\* sanitize is called on a string s.
call_sanitize ==
    /\ pool.use = "functions"
    /\ pure.fn = "none"
    /\ \E s \in Strings(MaxLen) :
          pure' = [fn |-> "sanitize", arg |-> s, res |-> sanitize(s)]
    /\ UNCHANGED <<G, pc, i, session, opened, tx, store, issued, outcome,
                   clock, syncs, hist, pool, verbose, printed, ret, twin,
                   cons, ccall>>

\* __unpack_props is called on a dict props.
call_unpack_props ==
    /\ pool.use = "functions"
    /\ pure.fn = "none"
    /\ \E props \in PropDicts(MaxItems) :
          pure' = [fn |-> "unpack_props", arg |-> props,
                   res |-> unpacked_props(props)]
    /\ UNCHANGED <<G, pc, i, session, opened, tx, store, issued, outcome,
                   clock, syncs, hist, pool, verbose, printed, ret, twin,
                   cons, ccall>>

-----------------------------------------------------------------------------
(* The program *)

Init ==
    /\ pool \in Pools
    /\ G = NoGraph
    /\ pc = Idle.pc
    /\ i = Idle.i
    /\ session = Idle.session
    /\ opened = Idle.opened
    /\ tx = Idle.tx
    /\ store = Idle.store
    /\ issued = Idle.issued
    /\ outcome = Idle.outcome
    /\ printed = Idle.printed
    /\ ret = Idle.ret
    /\ twin = Idle
    /\ verbose \in BOOLEAN
    /\ clock = 0
    /\ syncs = 0
    /\ hist = [start |-> EmptyStore, mid |-> EmptyStore, work |-> EmptyStore,
               failedAt |-> 0, resync |-> FALSE, given |-> NoGraph]
    /\ cons = {}
    /\ ccall = NoCall
    /\ pure = [fn |-> "none", arg |-> <<>>, res |-> <<>>]

Next ==
    \/ pc \in {"idle", "done"} /\ \E g \in Graphs(pool) : store_in_neo(g, verbose)
    \/ add_new_nodes
    \/ add_new_edges
    \/ commit_first
    \/ commit_second
    \/ \E label \in pool.labels : \E prop \in {sName, k1} :
          \E on \in {sNode, sRelationship, sEdge} :
              \E constraint_type \in {"unique", "exist", "exists"} :
                  \E ok \in BOOLEAN :
                      create_constraint(label, prop, on, constraint_type, ok)
    \/ call_sanitize
    \/ call_unpack_props

Spec == Init /\ [][Next]_vars

-----------------------------------------------------------------------------
(* Properties *)

Returned == pc = "done" /\ outcome = "returned"

Raised == pc = "done" /\ outcome = "raised"

NameOf(n) == n.props[sName]

\* C1: the store holds at most one persisted node for each (label, name)
\* pair.
C1_OneNodePerLabelName ==
    \A m, n \in store.nodes :
        (m.label = n.label /\ NameOf(m) = NameOf(n)) => m = n

\* The relationship the edge statement q asks for is there, in q's
\* direction.
HasRel(st, q) ==
    \E r \in st.rels : \E m, n \in st.nodes :
        /\ r.type = q.label /\ r.src = m.id /\ r.dst = n.id
        /\ m.label = q.from_label /\ NameOf(m) = StrVal(q.from_name)
        /\ n.label = q.to_label /\ NameOf(n) = StrVal(q.to_name)

OneRelPerTriple(st) ==
    \A r, t \in st.rels :
        (r.src = t.src /\ r.dst = t.dst /\ r.type = t.type) => r = t

C3_SecondRunChangesNothing ==
    (Returned /\ hist.resync) =>
        (store.nodes = hist.start.nodes /\ store.rels = hist.start.rels)

\* C4: the first store_in_neo of a graph with N nodes and M edges on an
\* empty store leaves exactly N persisted nodes and M persisted
\* relationships.
C4_FirstRunCreatesAll ==
    (Returned /\ hist.start = EmptyStore) =>
        /\ Cardinality(store.nodes) = Len(G.nodes)
        /\ Cardinality(store.rels) = Len(G.edges)

\* C5: no edge statement is issued before the node statement of every node
\* of the graph has been issued (and has run).
C5_NodesBeforeEdges ==
    \A k \in 1..Len(issued) :
        issued[k].kind = "edge" =>
            /\ k > Len(G.nodes)
            /\ \A n \in 1..Len(G.nodes) : issued[n] = node_query(G, n)

\* An edge statement has been issued for a graph of two nodes.
C5_Witness ==
    /\ Len(G.nodes) = 2
    /\ issued # <<>>
    /\ issued[Len(issued)].kind = "edge"

Total == Len(G.nodes) + Len(G.edges)

C8_SessionClosed ==
    /\ pc \in {"nodes", "edges"} => (session = 1 /\ opened = 1)
    /\ pc = "done" => (session = 0 /\ opened = 1)
    /\ pc = "idle" => (session = 0 /\ opened = 0)

\* A call that failed on an edge has ended with its session closed.
C8_Witness ==
    /\ Raised
    /\ issued[hist.failedAt].kind = "edge"
    /\ session = 0

\* The supplementary properties held in memory by the entity of the k-th
\* statement of phase ph.
Memory(ph, k) ==
    IF ph = "nodes" THEN Pop(G.data[G.nodes[k]], sLabel)
    ELSE Pop(G.attrs[G.edges[k]], sLabel)

\* The entities the k-th statement of phase ph binds, in the state st that
\* follows it.
BoundBy(st, before, ph, k) ==
    LET q == Query(ph, k) IN
    IF ph = "nodes"
    THEN LET found == MatchNodes(before, q.label, q.name)
         IN  {n \in st.nodes :
                 n.id \in (IF found # {} THEN found ELSE {before.nextId})}
    ELSE {r \in st.rels :
             /\ r.type = q.label
             /\ r.src \in MatchNodes(st, q.from_label, q.from_name)
             /\ r.dst \in MatchNodes(st, q.to_label, q.to_name)}

Entities(st, ph) == IF ph = "nodes" THEN st.nodes ELSE st.rels

\* C9 as claimed, upsert by upsert: once an entity's statement has run, the
\* persisted entity holds every in-memory key with its in-memory value, and
\* keeps the value of every key it had before that is absent in memory.
C9_MergeKeepsMemoryValues ==
    [][(pc \in {"nodes", "edges"} /\ pc' = pc /\ i' = i + 1) =>
        LET mem == Memory(pc, i) IN
        \A x \in BoundBy(tx', tx, pc, i) :
            /\ \A j \in 1..Len(mem) :
                  /\ mem[j][1] \in DOMAIN x.props
                  /\ x.props[mem[j][1]] = mem[j][2]
            /\ \A y \in Entities(tx, pc) :
                  y.id = x.id =>
                      \A k \in DOMAIN y.props \ Keys(mem) :
                          k \in DOMAIN x.props /\ x.props[k] = y.props[k]
      ]_vars

CreatedKept(old, new) ==
    \A x \in old : \A y \in new :
        (y.id = x.id /\ sCreated \in DOMAIN x.props) =>
            (sCreated \in DOMAIN y.props /\ y.props[sCreated] = x.props[sCreated])

\* C10 as claimed: the creation timestamp of a persisted node or
\* relationship is never changed by a later call.
C10_CreatedIsKept ==
    [][/\ CreatedKept(store.nodes, store'.nodes)
       /\ CreatedKept(store.rels, store'.rels)]_vars

-----------------------------------------------------------------------------
(* Properties of the return value, the statement text, create_constraint and
   verbose *)

Clean(text) == \A k \in 1..Len(text) : text[k] \notin Forbidden

\* C13: in every node, edge and constraint statement handed to tx.run, the
\* interpolated names, labels, property keys and string values, constraint
\* label and property contribute no forbidden character.
C13_InterpolatedIsSanitized ==
    /\ \A k \in 1..Len(issued) : Clean(issued[k].text)
    /\ \A k \in 1..Len(ccall.issued) : Clean(ccall.issued[k].text)

\* A node statement was issued for a node whose string property value holds
\* a semicolon.
C13_Witness ==
    \E k \in 1..Len(issued) :
        /\ issued[k].kind = "node"
        /\ <<k1, StrVal(<<"w", ";">>)>> \in Range(G.data[G.nodes[k]])

HasSetClause(q) ==
    \E k \in 1..Len(q.text) : q.text[k] \in {NodeSetOpens, EdgeSetOpens}

RECURSIVE Joined(_)
\* The fragment as claimed: "key:literal" entries joined by ", ".
Joined(props) ==
    IF props = <<>> THEN <<>>
    ELSE LET key == Head(props)[1]
             value == Head(props)[2]
             entry == sanitize(key) \o <<":">>
                        \o (IF value.t = "str"
                            THEN <<Quote>> \o sanitize(value.v) \o <<Quote>>
                            ELSE str(value.v))
         IN  IF Tail(props) = <<>> THEN entry
             ELSE entry \o <<",", " ">> \o Joined(Tail(props))

\* C15 as claimed: one entry per key, the key sanitized, a string value
\* sanitized and between double quotes, any other value as its literal
\* without quotes, the entries joined by ", " with no separator before the
\* first or after the last (the blank the fragment begins with is let
\* pass).
C15_EncoderEntries ==
    pure.fn = "unpack_props" =>
        pure.res \in {Joined(pure.arg), <<" ">> \o Joined(pure.arg)}

\* C16 as claimed: a statement is issued when on is node or relationship
\* and the kind is unique or exists; for any other argument the call ends
\* with the invalid-argument error, no session opened, no statement issued,
\* the constraints as they were.
C16_ValidatesUniqueExists ==
    ccall.calls > 0 =>
        IF ccall.on \in {sNode, sRelationship}
              /\ ccall.kind \in {"unique", "exists"}
        THEN Len(ccall.issued) = 1
        ELSE /\ ccall.outcome = "ValueError"
             /\ ccall.opened = 0
             /\ ccall.issued = <<>>
             /\ cons = ccall.before

\* C16, amended: the kinds are unique and exist.
C16_ValidatesUniqueExist ==
    ccall.calls > 0 =>
        IF ccall.on \in {sNode, sRelationship}
              /\ ccall.kind \in {"unique", "exist"}
        THEN Len(ccall.issued) = 1 /\ ccall.opened = 1
        ELSE /\ ccall.outcome = "ValueError"
             /\ ccall.opened = 0
             /\ ccall.issued = <<>>
             /\ cons = ccall.before

\* On a store that holds a constraint, a call with the kind 'exists' ended
\* with the error.
C16_Witness ==
    /\ ccall.outcome = "ValueError"
    /\ ccall.kind = "exists"
    /\ ccall.on = sNode
    /\ cons # {}

\* C17 as claimed: a uniqueness constraint created where there was none is
\* reported as created, one created again is reported as already there, and
\* either way the store then holds exactly one constraint of that name.
C17_CreatedThenExisted ==
    (ccall.outcome = "returned" /\ ccall.kind = "unique") =>
        LET q == ccall.issued[1]
            existed == \E x \in ccall.before : x.name = q.name
        IN  /\ Cardinality({x \in cons : x.name = q.name}) = 1
            /\ ccall.printed =
                  <<IF existed THEN "Desired constraint already exists."
                               ELSE "Add constraint query result:">>

\* What a call shows of itself, its prints aside.
Seen(c) ==
    [pc |-> c.pc, issued |-> c.issued, tx |-> c.tx, store |-> c.store,
     outcome |-> c.outcome, ret |-> c.ret, session |-> c.session]

\* C18: the same calls on the same graphs and the same initial store, made
\* with the other value of verbose, issue the same statements, leave the
\* same store and end the same way.
C18_VerboseChangesNothing == Seen(twin) = Seen(Cur)

\* A verbose second call returned; it printed, its twin did not.
C18_Witness ==
    /\ Returned /\ hist.resync /\ verbose
    /\ printed # <<>>
    /\ twin.printed = <<>>
    /\ store # EmptyStore

\* C19 as claimed: the properties a node statement merges hold neither
\* 'name' nor 'label', and once the statement of the node (L, N) has run, a
\* node of label L and name N is there.
C19_NodeOfLabelAndName ==
    [][(pc = "nodes" /\ pc' = pc /\ i' = i + 1) =>
        LET q == Query("nodes", i) IN
        /\ \A k \in 1..Len(q.props) : q.props[k].key \notin {sName, sLabel}
        /\ \E n \in tx'.nodes :
              n.label = q.label /\ NameOf(n) = StrVal(q.name)
      ]_vars

Ids(ents) == {e.id : e \in ents}

\* C20 as claimed: the edge transaction of a store_in_neo call creates no
\* node: during it and after it the nodes are those the node transaction
\* left.
C20_EdgePhaseCreatesNoNode ==
    /\ pc = "edges" => Ids(tx.nodes) = Ids(hist.mid.nodes)
    /\ Returned => Ids(store.nodes) = Ids(hist.mid.nodes)

-----------------------------------------------------------------------------
(* Properties of the graph in memory and of the constraint names *)

\* C21: store_in_neo leaves the graph as it was handed: while the call runs
\* and after it, returned or raised, the nodes, the edges and every node's
\* and edge's dict, 'label' included, are those the call was given.
C21_GraphIsReadOnly ==
    /\ G = hist.given
    /\ \A n \in Range(G.nodes) : sLabel \in Keys(G.data[n])
    /\ \A e \in Range(G.edges) : sLabel \in Keys(G.attrs[e])

\* A call ended by a failure on its edge after its node statement had run,
\* the graph holding a supplementary property.
C21_Witness ==
    /\ Raised
    /\ hist.failedAt >= 2
    /\ issued[hist.failedAt].kind = "edge"
    /\ Extras(G) >= 1
    /\ G = hist.given

\* C22 as claimed: the statement of a create_constraint call has another
\* name than every constraint in force that differs from it in label,
\* target, property or kind, and once the call has returned its constraint
\* is in force (a uniqueness constraint followed by an existence constraint
\* on the same label, target and property leaves both).
C22_NamesTellApart ==
    ccall.outcome = "returned" =>
        LET q == ccall.issued[1] IN
        /\ \A x \in ccall.before :
              (x.label # q.label \/ x.on # q.on \/ x.prop # q.prop
                  \/ x.requirement # q.requirement) => x.name # q.name
        /\ \E x \in cons :
              /\ x.label = q.label /\ x.on = q.on /\ x.prop = q.prop
              /\ x.requirement = q.requirement

====
